---- MODULE Spec2Model ----
(***************************************************************************)
(* Model of src/lib.rs of shuttle-axum: an axum router over one Postgres   *)
(* table `test (id, txt)`, with the start-up sequence of the manually      *)
(* expanded shuttle wrapper.                                               *)
(*                                                                         *)
(* The store executes each SQL statement atomically; every handler does    *)
(* exactly one statement.  A request is modelled in three steps: the       *)
(* router dispatches it to its handler (which then awaits the store), the  *)
(* statement runs and the handler builds its response, and the client      *)
(* takes the response.  Requests of different clients interleave freely    *)
(* between these steps.                                                    *)
(***************************************************************************)
EXTENDS Integers, Sequences, FiniteSets, TLC

\* ---------------------------------------------------------------- bounds
\* Number of requests that can be in flight at the same time.
NumClients == 2
\* Largest value the id sequence hands out (2^31 - 1 for a serial column,
\* scaled down): past it nextval fails instead of wrapping.
MaxSeq == 2
\* Number of requests a run sends.
MaxReqs == 4

Clients == 1..NumClients
\* Request bodies of POST /txt.
Txts == {"", "hello"}
\* Path ids of DELETE /txt/:id (0 is an id the sequence never hands out).
PathIds == 0..MaxSeq

\* ------------------------------------------------------------- constants
\* StatusCode of a handler's Ok(Json(..)) and of err(..) at its call sites.
OK == 200
INTERNAL_SERVER_ERROR == 500

\* ----------------------------------------------------------------- state
VARIABLES
    phase,      \* position of __shuttle_wrapper / main / __binder
    bootError,  \* the error start-up ended with, "" while there is none
    schema,     \* the schema script has been applied: the table exists
    routerBuilt,\* router(pool) has returned
    table,      \* rows of table test, in heap order
    seq,        \* last value of the id column's sequence
    pc,         \* per client: "idle", "await" (handler awaiting the store), "done"
    req,        \* per client: the request in flight
    resp,       \* per client: the response of the finished request
    cause,      \* per client: the sqlx error its statement ended with, "" if none
    log,        \* history: the rows successful creates and deletes returned, in order
    sent        \* number of requests dispatched so far

vars == <<phase, bootError, schema, routerBuilt, table, seq, pc, req, resp,
          cause, log, sent>>
boot == <<phase, bootError, schema, routerBuilt>>
store == <<table, seq>>

\* ------------------------------------------------------------- data types
\* struct Test { id: i32, txt: String }
Test(i, s) == [id |-> i, txt |-> s]
NoRow == Test(0, "")

NoReq == [op |-> "none", txt |-> "", id |-> 0, live |-> FALSE]
NoResp == [status |-> 0, row |-> NoRow, rows |-> <<>>, text |-> ""]

\* Display of the sqlx::Error variants the three statements can end with.
to_string(e) ==
    CASE e = "RowNotFound" ->
           "no rows returned by a query that expected to return at least one row"
      [] e = "Io" -> "error communicating with database: connection reset"
      [] e = "Database" -> "error returned from database"
      [] OTHER -> "error"

\* An error mapper that answers a missing row with 404 instead of the
\* status it was given.
err_notFound(status_code, error) ==
    [status |-> IF error = "RowNotFound" THEN 404 ELSE status_code,
     row |-> NoRow, rows |-> <<>>, text |-> to_string(error)]

\* fn err(status_code) -> impl FnOnce(E) -> AppError
err(status_code, error) ==
    [status |-> status_code, row |-> NoRow, rows |-> <<>>, text |-> to_string(error)]

\* Ok(Json(test)) / Ok(Json(tests)): the default success status.
OkRow(r) == [status |-> OK, row |-> r, rows |-> <<>>, text |-> ""]
OkRows(rs) == [status |-> OK, row |-> NoRow, rows |-> rs, text |-> ""]

IdsOf(rs) == {rs[k].id : k \in DOMAIN rs}
Max(S) == IF S = {} THEN 0 ELSE CHOOSE m \in S : \A n \in S : n <= m

\* -------------------------------------------------------------- the store
\* The schema script declares id as an auto-incrementing integer primary
\* key: its default is the next value of a sequence that only moves forward.
nextval(sq) == sq + 1

\* The statements answer with the store they leave and the rows they return;
\* error is "" when the statement succeeded.
Answer(e, tbl, sq, rs) == [error |-> e, table |-> tbl, seq |-> sq, rows |-> rs]

\* The id an INSERT that lists MAX(id) + 1 instead of leaving the column to
\* its default would store.
InsertId_maxPlusOne(tbl, sq) == Max(IdsOf(tbl)) + 1

\* "INSERT INTO test (txt) VALUES ($1)": id is not listed, so the store
\* fills it with the column default.
InsertId(tbl, sq) == nextval(sq)

\* An INSERT whose VALUES holds a literal instead of the bound parameter.
InsertStmt_literal(tbl, sq, txt) ==
    IF sq >= MaxSeq THEN Answer("Database", tbl, sq, <<>>)
    ELSE Answer("", Append(tbl, Test(nextval(sq), "")), nextval(sq),
                <<Test(nextval(sq), "")>>)

\* "INSERT INTO test (txt) VALUES ($1) RETURNING id, txt", $1 bound to txt.
\* The sequence fails at its maximum; a value it handed out stays consumed
\* when the primary key rejects the row.
InsertStmt(tbl, sq, txt) ==
    IF sq >= MaxSeq THEN Answer("Database", tbl, sq, <<>>)
    ELSE LET i == InsertId(tbl, sq) IN
         IF i \in IdsOf(tbl) THEN Answer("Database", tbl, nextval(sq), <<>>)
         ELSE Answer("", Append(tbl, Test(i, txt)), nextval(sq), <<Test(i, txt)>>)

\* A DELETE whose RETURNING rows are read but whose rows stay in the table.
DeleteStmt_keepsRow(tbl, sq, i) ==
    Answer("", tbl, sq, SelectSeq(tbl, LAMBDA r : r.id = i))

\* A DELETE that lost its WHERE clause.
DeleteStmt_noWhere(tbl, sq, i) ==
    Answer("", <<>>, sq, tbl)

\* A DELETE that also draws a value from the id sequence.
DeleteStmt_nextval(tbl, sq, i) ==
    Answer("", SelectSeq(tbl, LAMBDA r : r.id # i),
           IF sq < MaxSeq THEN nextval(sq) ELSE sq,
           SelectSeq(tbl, LAMBDA r : r.id = i))

\* "DELETE FROM test WHERE id = $1 RETURNING id, txt", $1 bound to id.
DeleteStmt(tbl, sq, i) ==
    Answer("", SelectSeq(tbl, LAMBDA r : r.id # i), sq,
           SelectSeq(tbl, LAMBDA r : r.id = i))

\* A SELECT that skips the first row.
SelectStmt_offset(tbl, sq) ==
    Answer("", tbl, sq, IF tbl = <<>> THEN <<>> ELSE Tail(tbl))

\* "SELECT * FROM test": every row, no ORDER BY (the model returns heap order).
SelectStmt(tbl, sq) == Answer("", tbl, sq, tbl)

\* A statement that fails for a reason outside its text: the connection is
\* lost or the table is missing.  The table is left as it was; an INSERT cut
\* short may already have drawn its id (burn).
Failed(e, tbl, sq, burn) ==
    Answer(e, tbl, IF burn /\ sq < MaxSeq THEN nextval(sq) ELSE sq, <<>>)

\* What can go wrong between the handler and the store.
Faults == {"none", "Io"}

\* Runs statement answer `a` under fault f, against a store whose schema may
\* be missing.
Execute(f, a, burn) ==
    IF f # "none" THEN Failed(f, table, seq, burn)
    ELSE IF ~schema THEN Failed("Database", table, seq, FALSE)
    ELSE a

\* fetch_one that answers an empty result with a default row.
fetch_one_lenient(a) ==
    IF a.error = "" /\ a.rows = <<>> THEN [a EXCEPT !.rows = <<NoRow>>] ELSE a

\* .fetch_one(&db): the first row, RowNotFound when there is none.
fetch_one(a) ==
    IF a.error = "" /\ a.rows = <<>> THEN [a EXCEPT !.error = "RowNotFound"] ELSE a

\* .fetch_all(&db): every row.
fetch_all(a) == a

\* --------------------------------------------------------------- start-up
Init ==
    /\ phase = "logger"
    /\ bootError = ""
    /\ schema = FALSE
    /\ routerBuilt = FALSE
    /\ table = <<>>
    /\ seq = 0
    /\ pc = [c \in Clients |-> "idle"]
    /\ req = [c \in Clients |-> NoReq]
    /\ resp = [c \in Clients |-> NoResp]
    /\ cause = [c \in Clients |-> ""]
    /\ log = <<>>
    /\ sent = 0

Fail(msg) ==
    /\ phase' = "failed"
    /\ bootError' = msg
    /\ UNCHANGED <<schema, routerBuilt>>

\* __shuttle_wrapper: the blocking task that installs the tracing subscriber;
\* a panic or a cancelled task ends start-up.
set_logger ==
    /\ phase = "logger"
    /\ \/ /\ phase' = "pool"
          /\ UNCHANGED <<bootError, schema, routerBuilt>>
       \/ Fail("BuildPanic: panicked setting logger")
       \/ Fail("Custom: failed to set logger")
    /\ UNCHANGED <<store, pc, req, resp, cause, log, sent>>

\* __shuttle_wrapper: shuttle_shared_db::Postgres::new().build(..).await?
build_pool ==
    /\ phase = "pool"
    /\ \/ /\ phase' = "main"
          /\ UNCHANGED <<bootError, schema, routerBuilt>>
       \/ Fail("Custom: failed to build pool")
    /\ UNCHANGED <<store, pc, req, resp, cause, log, sent>>

\* main with the `?` after map_err dropped: the script's error is ignored.
main_execute_ignoresError ==
    /\ phase = "main"
    /\ \E ok \in BOOLEAN :
         /\ schema' = ok
         /\ phase' = "router"
         /\ UNCHANGED <<bootError, routerBuilt>>
    /\ UNCHANGED <<store, pc, req, resp, cause, log, sent>>

\* main: pool.execute(include_str!("../db/schema.sql")).await.map_err(..)?
main_execute ==
    /\ phase = "main"
    /\ \E ok \in BOOLEAN :
         IF ok
         THEN /\ schema' = TRUE
              /\ phase' = "router"
              /\ UNCHANGED <<bootError, routerBuilt>>
         ELSE /\ schema' = FALSE
              /\ phase' = "failed"
              /\ bootError' = "Custom: schema"
              /\ UNCHANGED routerBuilt
    /\ UNCHANGED <<store, pc, req, resp, cause, log, sent>>

\* main: router(pool).await, SyncWrapper::new(router), Ok(sync_wrapper);
\* the wrapper boxes the service and returns it.
main_router ==
    /\ phase = "router"
    /\ routerBuilt' = TRUE
    /\ phase' = "bind"
    /\ UNCHANGED <<bootError, schema>>
    /\ UNCHANGED <<store, pc, req, resp, cause, log, sent>>

\* __shuttle_wrapper: the task running main panics or is cancelled.
join_error ==
    /\ phase \in {"main", "router"}
    /\ \/ Fail("BuildPanic: panicked calling main")
       \/ Fail("Custom: failed to call main")
    /\ UNCHANGED <<store, pc, req, resp, cause, log, sent>>

\* __binder: service.bind(addr); requests are accepted once it is bound.
binder ==
    /\ phase = "bind"
    /\ \/ /\ phase' = "serving"
          /\ UNCHANGED <<bootError, schema, routerBuilt>>
       \/ Fail("failed to bind service")
    /\ UNCHANGED <<store, pc, req, resp, cause, log, sent>>

\* --------------------------------------------------------------- requests
Requests ==
    [op : {"create"}, txt : Txts, id : {0}, live : {FALSE}]
      \cup [op : {"delete"}, txt : {""}, id : PathIds, live : {FALSE}]
      \cup [op : {"list"}, txt : {""}, id : {0}, live : {FALSE}]

\* router: POST /txt, DELETE /txt/:id and GET /txt reach their handlers, which
\* start their statement.  live notes whether the row a delete names is there.
dispatch(c) ==
    /\ phase = "serving"
    /\ pc[c] # "await"
    /\ sent < MaxReqs
    /\ sent' = sent + 1
    /\ \E r \in Requests :
         req' = [req EXCEPT ![c] = [r EXCEPT !.live = (r.op = "delete" /\ r.id \in IdsOf(table))]]
    /\ pc' = [pc EXCEPT ![c] = "await"]
    /\ resp' = [resp EXCEPT ![c] = NoResp]
    /\ cause' = [cause EXCEPT ![c] = ""]
    /\ UNCHANGED <<boot, store, log>>

\* The end of a handler: the store is as the statement left it, and the
\* answer becomes Ok(Json(..)) or the mapped error.
Respond(c, a, ok) ==
    /\ table' = a.table
    /\ seq' = a.seq
    /\ cause' = [cause EXCEPT ![c] = a.error]
    /\ resp' = [resp EXCEPT ![c] =
                  IF a.error # "" THEN err(INTERNAL_SERVER_ERROR, a.error) ELSE ok]
    /\ pc' = [pc EXCEPT ![c] = "done"]
    /\ UNCHANGED <<boot, req, sent>>

create_test(c) ==
    /\ pc[c] = "await"
    /\ req[c].op = "create"
    /\ \E f \in Faults, burn \in BOOLEAN :
         LET a == fetch_one(Execute(f, InsertStmt(table, seq, req[c].txt), burn)) IN
         /\ Respond(c, a, IF a.error = "" THEN OkRow(a.rows[1]) ELSE NoResp)
         /\ log' = IF a.error = ""
                   THEN Append(log, [op |-> "create", row |-> a.rows[1]])
                   ELSE log

delete_test(c) ==
    /\ pc[c] = "await"
    /\ req[c].op = "delete"
    /\ \E f \in Faults :
         LET a == fetch_one(Execute(f, DeleteStmt(table, seq, req[c].id), FALSE)) IN
         /\ Respond(c, a, IF a.error = "" THEN OkRow(a.rows[1]) ELSE NoResp)
         /\ log' = IF a.error = ""
                   THEN Append(log, [op |-> "delete", row |-> a.rows[1]])
                   ELSE log

list_tests(c) ==
    /\ pc[c] = "await"
    /\ req[c].op = "list"
    /\ \E f \in Faults :
         LET a == fetch_all(Execute(f, SelectStmt(table, seq), FALSE)) IN
         /\ Respond(c, a, OkRows(a.rows))
         /\ UNCHANGED log

\* ---------------------------------------------------------- specifications
Next ==
    \/ set_logger
    \/ build_pool
    \/ main_execute
    \/ main_router
    \/ join_error
    \/ binder
    \/ \E c \in Clients : dispatch(c)
    \/ \E c \in Clients : create_test(c)
    \/ \E c \in Clients : delete_test(c)
    \/ \E c \in Clients : list_tests(c)

Spec == Init /\ [][Next]_vars

\* One client: each request is sent after the response to the one before.
NextSingle ==
    \/ set_logger
    \/ build_pool
    \/ main_execute
    \/ main_router
    \/ join_error
    \/ binder
    \/ dispatch(1)
    \/ create_test(1)
    \/ delete_test(1)
    \/ list_tests(1)

SpecSingle == Init /\ [][NextSingle]_vars

\* ---------------------------------------------------------------- history
Created == SelectSeq(log, LAMBDA e : e.op = "create")
Deleted == SelectSeq(log, LAMBDA e : e.op = "delete")
CreatedRows == {Created[k].row : k \in DOMAIN Created}
DeletedIds == {Deleted[k].row.id : k \in DOMAIN Deleted}
Done(c, op) == pc[c] = "done" /\ req[c].op = op
RowNotFoundText == to_string("RowNotFound")

\* The step in which client c's create / delete returns a row.
CreateOk(c) ==
    /\ pc[c] = "await" /\ req[c].op = "create"
    /\ pc'[c] = "done" /\ resp'[c].status = OK
DeleteOk(c) ==
    /\ pc[c] = "await" /\ req[c].op = "delete"
    /\ pc'[c] = "done" /\ resp'[c].status = OK
DeleteStep(c) ==
    /\ pc[c] = "await" /\ req[c].op = "delete"
    /\ pc'[c] = "done"

\* ------------------------------------------------------------------ claims

\* C1: for each id at most one Delete ever succeeds; an id whose Delete
\* succeeded is in the table no more, so every later Delete of it fails; and
\* a Delete sent for a row that is there fails for lack of the row only when
\* another Delete of that id has succeeded.
C1_DeleteSucceedsOnce ==
    /\ \A j, k \in DOMAIN Deleted : j # k => Deleted[j].row.id # Deleted[k].row.id
    /\ DeletedIds \cap IdsOf(table) = {}
    /\ \A c \in Clients :
         Done(c, "delete") /\ cause[c] = "RowNotFound" /\ req[c].live
            => req[c].id \in DeletedIds

\* A second Delete of an id, sent after the first succeeded, has failed.
C1_Witness ==
    \E c \in Clients :
       /\ Done(c, "delete") /\ ~req[c].live
       /\ req[c].id \in DeletedIds
       /\ cause[c] = "RowNotFound"
       /\ resp[c].status = INTERNAL_SERVER_ERROR

\* C2 (one client): a successful Create(s) returns a row with txt = s and an
\* id no other created row has, and a List that follows holds every created
\* row that no Delete has removed, with that id and txt.
C2_CreateThenList ==
    /\ \A j, k \in DOMAIN Created : j # k => Created[j].row.id # Created[k].row.id
    /\ Done(1, "create") /\ resp[1].status = OK
          => /\ resp[1].row.txt = req[1].txt
             /\ Created[Len(Created)].row = resp[1].row
    /\ Done(1, "list") /\ resp[1].status = OK
          => \A r \in CreatedRows :
                r.id \notin DeletedIds
                   => \E k \in DOMAIN resp[1].rows : resp[1].rows[k] = r

\* A List after a Create of "hello" and of "" returns both rows.
C2_Witness ==
    /\ Done(1, "list") /\ resp[1].status = OK
    /\ Len(Created) = 2 /\ Deleted = <<>>
    /\ \E j, k \in DOMAIN resp[1].rows :
          resp[1].rows[j].txt = "hello" /\ resp[1].rows[k].txt = ""

\* C3 (one client, the table empty at the start): a successful List returns
\* as many rows as Creates have succeeded minus Deletes that have succeeded.
C3_ListCount ==
    Done(1, "list") /\ resp[1].status = OK
       => Len(resp[1].rows) = Len(Created) - Len(Deleted)

\* A List after two Creates and one Delete returns one row.
C3_Witness ==
    /\ Done(1, "list") /\ resp[1].status = OK
    /\ Len(Created) = 2 /\ Len(Deleted) = 1
    /\ Len(resp[1].rows) = 1

\* C4: the ids successful Creates return are pairwise distinct, in any
\* interleaving with other Creates and Deletes, and no two rows of the table
\* share an id.
C4_DistinctIds ==
    /\ \A j, k \in DOMAIN table : j # k => table[j].id # table[k].id
    /\ \A j, k \in DOMAIN Created : j # k => Created[j].row.id # Created[k].row.id
    /\ \A c, d \in Clients :
         c # d /\ Done(c, "create") /\ Done(d, "create")
               /\ resp[c].status = OK /\ resp[d].status = OK
            => resp[c].row.id # resp[d].row.id

\* The only two requests sent are Creates of different clients; both have
\* returned, client 2's with the smaller id.
C4_Witness ==
    /\ Done(1, "create") /\ Done(2, "create")
    /\ resp[1].status = OK /\ resp[2].status = OK
    /\ resp[2].row.id < resp[1].row.id
    /\ sent = 2
    /\ Len(table) = 2

\* C5: of the Deletes sent for an id whose row is there, exactly one
\* succeeds and returns the row; every other one that reaches the store gets
\* the no-row failure as a 500; the table is then the created rows less the
\* deleted ones.
C5_ConcurrentDelete ==
    /\ \A c \in Clients :
         Done(c, "delete") /\ req[c].live /\ cause[c] \in {"", "RowNotFound"}
            => /\ req[c].id \notin IdsOf(table)
               /\ Cardinality({k \in DOMAIN Deleted : Deleted[k].row.id = req[c].id}) = 1
               /\ \/ /\ resp[c].status = OK
                     /\ resp[c].row.id = req[c].id
                     /\ resp[c].row \in CreatedRows
                  \/ /\ resp[c].status = INTERNAL_SERVER_ERROR
                     /\ resp[c].text = RowNotFoundText
    /\ \A c, d \in Clients :
         c # d /\ Done(c, "delete") /\ Done(d, "delete") /\ req[c].id = req[d].id
            => ~(resp[c].status = OK /\ resp[d].status = OK)
    /\ table = SelectSeq([k \in DOMAIN Created |-> Created[k].row],
                         LAMBDA r : r.id \notin DeletedIds)

\* Two Deletes of one id, both sent while its row was there: one has the
\* row, the other the no-row failure.
C5_Witness ==
    \E c, d \in Clients :
       /\ c # d
       /\ Done(c, "delete") /\ Done(d, "delete")
       /\ req[c].id = req[d].id /\ req[c].live /\ req[d].live
       /\ resp[c].status = OK
       /\ resp[d].status = INTERNAL_SERVER_ERROR /\ cause[d] = "RowNotFound"

\* C6: a request whose statement failed, whatever the failure, is answered
\* with 500 and the error's text, which is not empty; no other status than
\* 200 and 500 leaves a handler.
C6_ErrorsAre500 ==
    \A c \in Clients :
       pc[c] = "done"
          => /\ resp[c].status \in {OK, INTERNAL_SERVER_ERROR}
             /\ cause[c] # ""
                   => /\ resp[c].status = INTERNAL_SERVER_ERROR
                      /\ resp[c].text = to_string(cause[c])
                      /\ resp[c].text # ""
             /\ cause[c] = "" => resp[c].status = OK

\* A lost connection and a missing row have both been answered.
C6_Witness ==
    \E c, d \in Clients :
       /\ pc[c] = "done" /\ cause[c] = "Io"
       /\ pc[d] = "done" /\ cause[d] = "RowNotFound"
       /\ resp[c].status = INTERNAL_SERVER_ERROR
       /\ resp[d].status = INTERNAL_SERVER_ERROR

\* C7: the router is built and requests are served only after the schema
\* script succeeded; when the script fails, start-up ends with its error, no
\* router is built and no request is ever dispatched.
C7_SchemaBeforeServing ==
    /\ routerBuilt => schema
    /\ phase \in {"router", "bind", "serving"} => schema
    /\ phase = "serving" => routerBuilt
    /\ (sent > 0 \/ \E c \in Clients : pc[c] # "idle") => schema /\ routerBuilt
    /\ ~schema /\ phase \notin {"logger", "pool", "main"}
          => /\ phase = "failed"
             /\ ~routerBuilt
             /\ sent = 0

\* The schema script failed and start-up ended there.
C7_Witness ==
    /\ bootError = "Custom: schema"
    /\ phase = "failed"
    /\ ~schema /\ ~routerBuilt

\* C8: an id a Create returned is never returned by a later Create, also
\* after a Delete removed its row.
C8_NoIdReuse ==
    \A j, k \in DOMAIN log :
       j < k /\ log[k].op = "create" => log[k].row.id # log[j].row.id

\* A Create has succeeded after a Delete removed an earlier row.
C8_Witness ==
    \E j, k \in DOMAIN log :
       /\ j < k
       /\ log[j].op = "delete"
       /\ log[k].op = "create"

\* C9: a successful Delete(id) returns the row that held id just before,
\* removes that row and leaves every other row, in place, as it was.
C9_DeleteFrame ==
    [][\A c \in Clients :
         DeleteOk(c)
            => \E k \in DOMAIN table :
                  /\ table[k].id = req[c].id
                  /\ resp'[c].row = table[k]
                  /\ table' = SubSeq(table, 1, k - 1) \o SubSeq(table, k + 1, Len(table))]_vars

\* A Delete has returned the "hello" row while another row stays.
C9_Witness ==
    \E c \in Clients :
       /\ Done(c, "delete") /\ resp[c].status = OK
       /\ resp[c].row.txt = "hello"
       /\ table # <<>>

\* C10 as stated: Create and Delete both advance the id sequence, which
\* never decreases.
C10_Original ==
    [][/\ \A c \in Clients : CreateOk(c) => seq' > seq
       /\ \A c \in Clients : DeleteOk(c) => seq' > seq
       /\ seq' >= seq]_vars

\* C10 amended: a successful Create advances the id sequence, a Delete
\* leaves it as it is, and it never decreases.
C10_CreateAdvances ==
    [][/\ \A c \in Clients : CreateOk(c) => seq' > seq
       /\ \A c \in Clients : DeleteStep(c) => seq' = seq
       /\ seq' >= seq]_vars

\* A Delete has succeeded and the sequence stands where the Creates left it.
C10_Witness ==
    \E c \in Clients :
       /\ Done(c, "delete") /\ resp[c].status = OK
       /\ seq = Len(Created)
       /\ seq > 0

====
